---- MODULE Spec2Model ----
(***************************************************************************)
(* SmartNewsRadar: the concurrent fetch pipeline of                        *)
(* enhanced_data_fetcher.py (EnhancedDataFetcher) as a state machine.      *)
(*                                                                         *)
(* One fetch_all_news_async run: create the aiohttp session, build one     *)
(* coroutine per enabled source of a known type, gather them, aggregate    *)
(* the per-source lists, close the session, return.  Between runs the      *)
(* catalog is edited by add_custom_source / enable_source /                *)
(* disable_source.                                                         *)
(*                                                                         *)
(* A remote answer is a record: how the request ended (timeout, transport  *)
(* error, HTTP response), the status, whether the body parses, and the     *)
(* entries of the body (has_title: the entry carries a title field; len:   *)
(* the length of its visible, stripped text).  The title of entry j of     *)
(* the source at catalog position c is the token <<c, j>>.                 *)
(***************************************************************************)
EXTENDS Integers, Sequences, FiniteSets, TLC

VARIABLES
    config,        \* the dict handed to EnhancedDataFetcher.__init__
    news_sources,  \* self.news_sources: the catalog, a list of NewsSource
    pc,            \* position of fetch_all_news_async
    session,       \* the aiohttp.ClientSession of the run
    tasks,         \* the list `tasks`: one coroutine per dispatched source
    task_state,    \* per task: "created", "inflight", "done"
    requests,      \* per task: number of session.get calls issued
    resp,          \* per task: the remote answer it received
    results,       \* per task: what gather recorded for it
    all_news,      \* the list all_news
    ret,           \* how the call ended: "none", "list", "raised"
    source_count,  \* the number of sources the closing log line reports
    now,           \* the clock read by datetime.now()
    first_run,     \* what the caller kept of an earlier call
    config_file,   \* what the last _load_config found at the file's path
    notifier,      \* a SmartNotifier and its call of send_keyword_report
    engine         \* SmartLearningEngine: the class, a caller's config, an instance

vars == <<config, news_sources, pc, session, tasks, task_state, requests,
          resp, results, all_news, ret, source_count, now, first_run,
          config_file, notifier, engine>>

\* what no action of the fetcher writes: the clock, the caller's copy, the
\* other components
hist_vars == <<now, first_run, config_file, notifier, engine>>

----------------------------------------------------------------------------
(* Bounds *)

\* number of add_custom_source calls modelled
MaxCustom == 1
\* size of a small well-formed payload
SmallPayload == 2

----------------------------------------------------------------------------
(* Program constants *)

\* feed.entries[:30]
RssLimit == 30
\* soup.select(source.selector)[:20]
WebLimit == 20
\* len(title) > 5
MinTitleLen == 5
\* entry.get('summary', '')[:100]
DescriptionLimit == 100
\* aiohttp.ClientTimeout(total=30), seconds
ClientTimeoutTotal == 30

\* aiohttp.ClientSession() without a connector: TCPConnector(limit=100)
DefaultConnectorLimit == 100
\* 'concurrent_limit': 20 of the default configuration
concurrent_limit == 20
\* asyncio.gather(*tasks, return_exceptions=True)
return_exceptions == TRUE

NoLimit == 0
KnownTypes == {"newsnow_api", "rss", "web_scraper"}

----------------------------------------------------------------------------
(* The catalog *)

NewsSource(id, name, type, selector, enabled) ==
    [id |-> id, name |-> name, source_type |-> type,
     selector |-> selector, enabled |-> enabled]

\* _init_news_sources, shortened: API sources first, then RSS, then web
\* scrapers; "sspai" is an id both of an API source and of an RSS source,
\* with the same display name, as in the built-in list.
_init_news_sources ==
    << NewsSource("sspai", "Sspai", "newsnow_api", FALSE, TRUE),
       NewsSource("sspai", "Sspai", "rss", FALSE, TRUE),
       NewsSource("cctv", "CCTV", "web_scraper", TRUE, TRUE) >>

\* what a caller may hand to add_custom_source: any NewsSource, including
\* one of an unknown type, one without selector, one reusing an id
CustomSources ==
    { NewsSource("wire", "Wire", "newsnow_api", FALSE, TRUE),
      NewsSource("pod", "Pod", "podcast", FALSE, TRUE),
      NewsSource("cctv", "Mirror", "web_scraper", FALSE, TRUE) }

SourceIds == {"sspai", "cctv", "wire", "pod", "nosuch"}

\* the default configuration: 'concurrent_limit': 20, and of the three
\* type sections only 'web_scraping' has 'enabled': False
_create_default_config ==
    [concurrent_limit |-> concurrent_limit, disabled_types |-> {"web_scraper"}]

\* the config dicts modelled: {} and the default configuration
Configs == { [concurrent_limit |-> NoLimit, disabled_types |-> {}],
             _create_default_config }

\* what can be at the path of the configuration file
ConfigFiles == {"missing", "unparsable", "valid"}

----------------------------------------------------------------------------
(* Remote answers *)

Entry(has_title, len) == [has_title |-> has_title, len |-> len]

\* k well-formed entries, entry `bad` (0: none) lacking its title
Payload(k, bad) == [j \in 1..k |-> Entry(j # bad, 8)]

\* elements matched by a selector, given their visible text lengths
Elements(lens) == [j \in 1..Len(lens) |-> Entry(TRUE, lens[j])]

\* the summary lengths of a feed: longer than the description limit,
\* exactly at it, absent (''), short
SummaryLen(j) == IF j = 1 THEN 250 ELSE IF j = 2 THEN 100 ELSE IF j = 3 THEN 0 ELSE 40

\* a feed of k entries, entry `bad` (0: none) lacking its title
FeedPayload(k, bad) ==
    [j \in 1..k |-> [has_title |-> j # bad, len |-> 8, summary |-> SummaryLen(j)]]

Timeout == [kind |-> "timeout", status |-> 0, parsable |-> FALSE, entries |-> <<>>]
TransportError == [kind |-> "transport", status |-> 0, parsable |-> FALSE, entries |-> <<>>]
Http(status, parsable, entries) ==
    [kind |-> "http", status |-> status, parsable |-> parsable, entries |-> entries]

Failures == { Timeout, TransportError, Http(500, TRUE, Payload(SmallPayload, 0)),
              Http(200, FALSE, <<>>) }

ApiAnswers == Failures \cup
    { Http(200, TRUE, Payload(0, 0)),
      Http(200, TRUE, Payload(SmallPayload, 0)),
      Http(200, TRUE, Payload(SmallPayload, 1)),
      Http(200, TRUE, Payload(51, 0)) }

RssAnswers == Failures \cup
    { Http(200, TRUE, FeedPayload(SmallPayload, 0)),
      Http(200, TRUE, FeedPayload(SmallPayload, 1)),
      Http(200, TRUE, FeedPayload(RssLimit + 1, 0)) }

WebAnswers == Failures \cup
    { Http(200, TRUE, Elements(<<3, 4, 6, 10>>)),
      Http(200, TRUE, Elements(<<6, 5, 10>>)),
      Http(200, TRUE, Payload(WebLimit + 1, 0)) }

Answers(type) ==
    CASE type = "newsnow_api" -> ApiAnswers
      [] type = "rss" -> RssAnswers
      [] type = "web_scraper" -> WebAnswers

NoAnswer == [kind |-> "none", status |-> 0, parsable |-> FALSE, entries |-> <<>>]

----------------------------------------------------------------------------
(* The adapters *)

Item(title, source, rank) ==
    [title |-> title, source |-> source, rank |-> rank, timestamp |-> now]

Ret(v) == [raised |-> FALSE, value |-> v, exc |-> "none"]
Raise(e) == [raised |-> TRUE, value |-> <<>>, exc |-> e]
Pending == [raised |-> FALSE, value |-> <<>>, exc |-> "pending"]

Min(a, b) == IF a < b THEN a ELSE b

RECURSIVE SelectSeq2(_, _, _)
\* the items appended by a loop over entries 1..Len(es) that keeps entry j
\* when Keep[j] and builds Build[j] for it
SelectSeq2(es, Keep, Build) ==
    IF es = <<>> THEN <<>>
    ELSE LET n == Len(es)
             front == SelectSeq2(SubSeq(es, 1, n - 1), Keep, Build)
         IN IF Keep[n] THEN Append(front, Build[n]) ELSE front

\* the try block of _fetch_newsnow_api
newsnow_try(c, source, r) ==
    IF r.kind # "http" THEN Raise(r.kind)
    ELSE IF r.status # 200 THEN Ret(<<>>)
    ELSE IF ~r.parsable THEN Raise("decode")
    ELSE LET items == r.entries
         IN IF \E j \in 1..Len(items) : ~items[j].has_title
            THEN Raise("KeyError")
            ELSE Ret([idx \in 1..Len(items) |-> Item(<<c, idx>>, source.name, idx)])

\* the handler narrowed to `except (aiohttp.ClientError, asyncio.TimeoutError)`
fetch_newsnow_api_narrow_except(c, source, r) ==
    LET t == newsnow_try(c, source, r)
    IN IF t.raised /\ t.exc \in {"timeout", "transport"} THEN Ret(<<>>) ELSE t

\* except Exception: return []
_fetch_newsnow_api(c, source, r) ==
    LET t == newsnow_try(c, source, r)
    IN IF t.raised THEN Ret(<<>>) ELSE t

\* a feed item: an item with the key 'description', here the length of
\* the description text
FeedItem(title, source, rank, description) ==
    [title |-> title, source |-> source, rank |-> rank, timestamp |-> now,
     description |-> description]

\* the try block without the [:30] and [:100] slices
rss_try_unsliced(c, source, r) ==
    IF r.kind # "http" THEN Raise(r.kind)
    ELSE IF r.status # 200 THEN Ret(<<>>)
    ELSE LET entries == IF r.parsable THEN r.entries ELSE <<>>
         IN Ret([idx \in 1..Len(entries) |->
                  FeedItem(IF entries[idx].has_title THEN <<c, idx>> ELSE <<0, 0>>,
                           source.name, idx, entries[idx].summary)])

\* the try block of _fetch_rss_feed; feedparser.parse does not raise, an
\* unparsable body has no entries; entry.get('title', '') of an entry
\* without title is '' (the token <<0, 0>>); the description is the first
\* 100 characters of the summary
rss_try(c, source, r) ==
    IF r.kind # "http" THEN Raise(r.kind)
    ELSE IF r.status # 200 THEN Ret(<<>>)
    ELSE LET feed == IF r.parsable THEN r.entries ELSE <<>>
             entries == SubSeq(feed, 1, Min(Len(feed), RssLimit))
         IN Ret([idx \in 1..Len(entries) |->
                  FeedItem(IF entries[idx].has_title THEN <<c, idx>> ELSE <<0, 0>>,
                           source.name, idx,
                           Min(entries[idx].summary, DescriptionLimit))])

_fetch_rss_feed(c, source, r) ==
    LET t == rss_try(c, source, r)
    IN IF t.raised THEN Ret(<<>>) ELSE t

\* the try block of _fetch_web_content; BeautifulSoup does not raise, an
\* unparsable body matches no element
web_try(c, source, r) ==
    IF r.kind # "http" THEN Raise(r.kind)
    ELSE IF r.status # 200 THEN Ret(<<>>)
    ELSE IF ~source.selector THEN Ret(<<>>)
    ELSE LET soup == IF r.parsable THEN r.entries ELSE <<>>
             elements == SubSeq(soup, 1, Min(Len(soup), WebLimit))
             Keep == [idx \in 1..Len(elements) |-> elements[idx].len > MinTitleLen]
             Build == [idx \in 1..Len(elements) |-> Item(<<c, idx>>, source.name, idx)]
         IN Ret(SelectSeq2(elements, Keep, Build))

\* the adapter without its try/except
fetch_web_content_unguarded(c, source, r) == web_try(c, source, r)

_fetch_web_content(c, source, r) ==
    LET t == web_try(c, source, r)
    IN IF t.raised THEN Ret(<<>>) ELSE t

\* the coroutine created for a source (lines 194-199)
RunTask(c, source, r) ==
    CASE source.source_type = "newsnow_api" -> _fetch_newsnow_api(c, source, r)
      [] source.source_type = "rss" -> _fetch_rss_feed(c, source, r)
      [] source.source_type = "web_scraper" -> _fetch_web_content(c, source, r)

----------------------------------------------------------------------------
(* fetch_all_news_async *)

RECURSIVE BuildTasksIgnoringEnabled(_, _)
\* the dispatch loop without its `if not source.enabled: continue`
BuildTasksIgnoringEnabled(srcs, c) ==
    IF c > Len(srcs) THEN <<>>
    ELSE IF srcs[c].source_type \in KnownTypes
         THEN <<c>> \o BuildTasksIgnoringEnabled(srcs, c + 1)
         ELSE BuildTasksIgnoringEnabled(srcs, c + 1)

RECURSIVE BuildTasks(_, _)
\* the loop of lines 190-203 over catalog positions c..Len(srcs): the
\* catalog positions for which a coroutine is appended to tasks
BuildTasks(srcs, c) ==
    IF c > Len(srcs) THEN <<>>
    ELSE IF ~srcs[c].enabled THEN BuildTasks(srcs, c + 1)
    ELSE IF srcs[c].source_type \in KnownTypes
         THEN <<c>> \o BuildTasks(srcs, c + 1)
         ELSE BuildTasks(srcs, c + 1)

RECURSIVE AggregateUntilEmpty(_, _)
\* the aggregation loop leaving at the first exception or empty result
AggregateUntilEmpty(res, i) ==
    IF i > Len(res) THEN <<>>
    ELSE IF res[i].raised THEN <<>>
    ELSE IF res[i].value # <<>> THEN res[i].value \o AggregateUntilEmpty(res, i + 1)
    ELSE <<>>

RECURSIVE Aggregate(_, _)
\* the loop of lines 208-212 from result i on
Aggregate(res, i) ==
    IF i > Len(res) THEN <<>>
    ELSE IF res[i].raised THEN Aggregate(res, i + 1)
    ELSE IF res[i].value # <<>> THEN res[i].value \o Aggregate(res, i + 1)
    ELSE Aggregate(res, i + 1)

\* the timeout under which the request for a source runs: session.get is
\* called without a timeout of its own, so it is the session's, for every
\* source alike (NewsSource has no timeout field)
TimeoutOf(source) == ClientTimeoutTotal

\* the name line 210 puts in its report on the i-th gathered result:
\* self.news_sources[i].name, i counting the results
ReportedName(i) == news_sources[i].name

InFlight == {i \in 1..Len(tasks) : task_state[i] = "inflight"}

\* a fail-fast join: the caller resumes as soon as one task has come back
\* empty-handed
JoinReadyFailFast ==
    \/ \A i \in 1..Len(tasks) : task_state[i] = "done"
    \/ \E i \in 1..Len(tasks) : task_state[i] = "done" /\ results[i].value = <<>>

\* gather resumes its caller when every awaitable has finished
JoinReady == \A i \in 1..Len(tasks) : task_state[i] = "done"

NoSession == [open |-> FALSE, limit |-> 0]
NoRun == [done |-> FALSE, sources |-> <<>>, resp |-> <<>>, news |-> <<>>]

\* CONFIG['weights'] as the class body defines it, in thousandths
DefaultWeights == [frequency |-> 400, trend |-> 400, sentiment |-> 200]

\* a dict without the key 'weights'
NoWeights == [k \in {} |-> 0]

\* no notifier call under way
NoNotifier ==
    [enabled |-> FALSE, platforms |-> <<>>, pc |-> "idle", k |-> 0,
     success_count |-> 0, total_platforms |-> 0, attempted |-> <<>>, ret |-> FALSE]

\* the class as loaded, no instance made
NoEngine ==
    [CONFIG |-> DefaultWeights, given |-> NoWeights, user_config |-> NoWeights,
     built |-> FALSE, fresh |-> FALSE, weights |-> DefaultWeights]

\* the fetcher after construction
FetcherInit ==
    /\ config \in Configs
    /\ news_sources = _init_news_sources
    /\ pc = "idle"
    /\ session = NoSession
    /\ tasks = <<>>
    /\ task_state = <<>>
    /\ requests = <<>>
    /\ resp = <<>>
    /\ results = <<>>
    /\ all_news = <<>>
    /\ ret = "none"
    /\ source_count = 0
    /\ now = 0
    /\ first_run = NoRun
    /\ config_file = "none"

Init == FetcherInit /\ notifier = NoNotifier /\ engine = NoEngine

run_vars == <<pc, session, tasks, task_state, requests, resp, results, all_news, ret,
              source_count>>

\* EnhancedDataFetcher(cfg) constructed anew: the only way the code
\* rebuilds its catalog is self.news_sources = self._init_news_sources()
__init__(cfg) ==
    /\ pc = "idle"
    /\ config' = cfg
    /\ news_sources' = _init_news_sources
    /\ UNCHANGED <<hist_vars, run_vars>>

\* SmartNewsRadar(config_file) constructed anew: _load_config gives the
\* default configuration for a missing file and the parsed file otherwise,
\* yaml.safe_load raises on a file it cannot parse and nothing catches it;
\* the fetcher is then built from the configuration
_load_config(file, cfg) ==
    /\ pc = "idle"
    /\ config_file' = file
    /\ IF file = "unparsable"
       THEN /\ pc' = "crashed"
            /\ UNCHANGED <<config, news_sources>>
       ELSE /\ pc' = pc
            /\ config' = IF file = "missing" THEN _create_default_config ELSE cfg
            /\ news_sources' = _init_news_sources
    /\ UNCHANGED <<notifier, engine, now, first_run, session, tasks, task_state, requests, resp,
                   results, all_news, ret, source_count>>

\* add_custom_source(source)
add_custom_source(source) ==
    /\ pc = "idle"
    /\ Len(news_sources) < Len(_init_news_sources) + MaxCustom
    /\ news_sources' = Append(news_sources, source)
    /\ UNCHANGED <<hist_vars, config, run_vars>>

\* the position of the first source with this id, 0 when there is none
FirstWithId(srcs, source_id) ==
    IF \E c \in 1..Len(srcs) : srcs[c].id = source_id
    THEN CHOOSE c \in 1..Len(srcs) :
            /\ srcs[c].id = source_id
            /\ \A d \in 1..(c - 1) : srcs[d].id # source_id
    ELSE 0

SetEnabled(srcs, source_id, flag) ==
    LET c == FirstWithId(srcs, source_id)
    IN IF c = 0 THEN srcs ELSE [srcs EXCEPT ![c].enabled = flag]

\* enable_source(source_id)
enable_source(source_id) ==
    /\ pc = "idle"
    /\ news_sources' = SetEnabled(news_sources, source_id, TRUE)
    /\ UNCHANGED <<hist_vars, config, run_vars>>

\* disable_source(source_id)
disable_source(source_id) ==
    /\ pc = "idle"
    /\ news_sources' = SetEnabled(news_sources, source_id, FALSE)
    /\ UNCHANGED <<hist_vars, config, run_vars>>

\* entering the call without the statement all_news = []
CreateSessionKeepingNews ==
    /\ pc = "idle"
    /\ pc' = "dispatching"
    /\ session' = [open |-> TRUE, limit |-> DefaultConnectorLimit]
    /\ UNCHANGED <<hist_vars, config, source_count, news_sources, tasks, task_state, requests,
                   resp, results, all_news, ret>>

\* entering fetch_all_news_async: all_news = [], the session is created
CreateSession ==
    /\ pc = "idle"
    /\ pc' = "dispatching"
    /\ session' = [open |-> TRUE, limit |-> DefaultConnectorLimit]
    /\ all_news' = <<>>
    /\ UNCHANGED <<hist_vars, config, source_count, news_sources, tasks, task_state, requests, resp, results, ret>>

\* the for loop over self.news_sources, then gather schedules the tasks
Dispatch ==
    /\ pc = "dispatching"
    /\ tasks' = BuildTasks(news_sources, 1)
    /\ task_state' = [i \in 1..Len(tasks') |-> "created"]
    /\ requests' = [i \in 1..Len(tasks') |-> 0]
    /\ resp' = [i \in 1..Len(tasks') |-> NoAnswer]
    /\ results' = [i \in 1..Len(tasks') |-> Pending]
    /\ pc' = "joining"
    /\ UNCHANGED <<hist_vars, config, source_count, news_sources, session, all_news, ret>>

\* a task that changes the session it was handed when it sends its request
StartTaskChangingSession(i) ==
    /\ pc = "joining"
    /\ task_state[i] = "created"
    /\ Cardinality(InFlight) < session.limit
    /\ task_state' = [task_state EXCEPT ![i] = "inflight"]
    /\ requests' = [requests EXCEPT ![i] = @ + 1]
    /\ session' = [session EXCEPT !.limit = @ - 1]
    /\ UNCHANGED <<hist_vars, config, source_count, news_sources, pc, tasks, resp, results, all_news, ret>>

\* task i reaches session.get(source.url): the request is in flight
StartTask(i) ==
    /\ pc = "joining"
    /\ task_state[i] = "created"
    /\ Cardinality(InFlight) < session.limit
    /\ task_state' = [task_state EXCEPT ![i] = "inflight"]
    /\ requests' = [requests EXCEPT ![i] = @ + 1]
    /\ UNCHANGED <<hist_vars, config, source_count, news_sources, pc, session, tasks, resp, results, all_news, ret>>

\* an adapter that sends its request a second time after an answer that
\* gave it nothing
FinishTaskRetryingOnce(i, r) ==
    /\ pc = "joining"
    /\ task_state[i] = "inflight"
    /\ resp' = [resp EXCEPT ![i] = r]
    /\ IF RunTask(tasks[i], news_sources[tasks[i]], r).value = <<>> /\ requests[i] < 2
       THEN /\ task_state' = [task_state EXCEPT ![i] = "created"]
            /\ results' = results
       ELSE /\ task_state' = [task_state EXCEPT ![i] = "done"]
            /\ results' = [results EXCEPT ![i] = RunTask(tasks[i], news_sources[tasks[i]], r)]
    /\ UNCHANGED <<hist_vars, config, source_count, news_sources, pc, session, tasks, requests, all_news, ret>>

\* the request of task i ends with answer r; the adapter runs to its
\* return and gather records the outcome
FinishTask(i, r) ==
    /\ pc = "joining"
    /\ task_state[i] = "inflight"
    /\ task_state' = [task_state EXCEPT ![i] = "done"]
    /\ resp' = [resp EXCEPT ![i] = r]
    /\ results' = [results EXCEPT ![i] = RunTask(tasks[i], news_sources[tasks[i]], r)]
    /\ UNCHANGED <<hist_vars, config, source_count, news_sources, pc, session, tasks, requests, all_news, ret>>

\* a join that resumes only when every task has brought items back
JoinWhenAllDelivered ==
    /\ pc = "joining"
    /\ JoinReady
    /\ \A i \in 1..Len(results) : ~results[i].raised /\ results[i].value # <<>>
    /\ pc' = "done"
    /\ session' = [session EXCEPT !.open = FALSE]
    /\ ret' = "list"
    /\ all_news' = all_news \o Aggregate(results, 1)
    /\ source_count' = Cardinality({i \in 1..Len(results) : ~results[i].raised})
    /\ UNCHANGED <<hist_vars, config, news_sources, tasks, task_state, requests, resp, results>>

\* gather returns (or raises, without return_exceptions), the results are
\* aggregated, the session is closed, the call returns
Join ==
    /\ pc = "joining"
    /\ JoinReady
    /\ pc' = "done"
    /\ session' = [session EXCEPT !.open = FALSE]
    /\ IF ~return_exceptions /\ \E i \in 1..Len(results) : results[i].raised
       THEN /\ ret' = "raised"
            /\ all_news' = all_news
       ELSE /\ ret' = "list"
            /\ all_news' = all_news \o Aggregate(results, 1)
    /\ source_count' = Cardinality({i \in 1..Len(results) : ~results[i].raised})
    /\ UNCHANGED <<hist_vars, config, news_sources, tasks, task_state, requests, resp, results>>

\* a return that starts the next call at once, without the caller's call
ReturnRestarting ==
    /\ pc = "done"
    /\ pc' = "dispatching"
    /\ session' = [open |-> TRUE, limit |-> DefaultConnectorLimit]
    /\ tasks' = <<>>
    /\ task_state' = <<>>
    /\ requests' = <<>>
    /\ resp' = <<>>
    /\ results' = <<>>
    /\ all_news' = <<>>
    /\ ret' = "none"
    /\ source_count' = 0
    /\ UNCHANGED <<hist_vars, config, news_sources>>

\* the caller takes the result and the locals of the call are gone; the
\* fetcher is ready for the next call
Return ==
    /\ pc = "done"
    /\ pc' = "idle"
    /\ session' = NoSession
    /\ tasks' = <<>>
    /\ task_state' = <<>>
    /\ requests' = <<>>
    /\ resp' = <<>>
    /\ results' = <<>>
    /\ all_news' = <<>>
    /\ ret' = "none"
    /\ source_count' = 0
    /\ UNCHANGED <<hist_vars, config, news_sources>>

Next ==
    \/ \E cfg \in Configs : __init__(cfg)
    \/ \E s \in CustomSources : add_custom_source(s)
    \/ \E id \in SourceIds : enable_source(id)
    \/ \E id \in SourceIds : disable_source(id)
    \/ CreateSession
    \/ Dispatch
    \/ \E i \in 1..Len(tasks) : StartTask(i)
    \/ \E i \in 1..Len(tasks) :
          \E r \in Answers(news_sources[tasks[i]].source_type) : FinishTask(i, r)
    \/ Join
    \/ Return

Spec == Init /\ [][Next]_vars

\* one step of a call in progress: the loop builds the tasks, a task sends
\* its request, a request ends, gather resumes the caller
CallStep ==
    \/ Dispatch
    \/ \E i \in 1..Len(tasks) : StartTask(i)
    \/ \E i \in 1..Len(tasks) :
          \E r \in Answers(news_sources[tasks[i]].source_type) : FinishTask(i, r)
    \/ Join

\* The event loop keeps running a call that can take a step, and
\* ClientTimeout(total=30) ends every request that got no answer.
\* calls against the catalog as built, its sources switched off and on
NextCall ==
    \/ \E id \in SourceIds : enable_source(id)
    \/ \E id \in SourceIds : disable_source(id)
    \/ CreateSession
    \/ CallStep
    \/ Return

FairSpec == Init /\ [][NextCall]_vars /\ WF_vars(CallStep)

----------------------------------------------------------------------------
(* The fetcher inside SmartNewsRadar, built from a configuration file *)

NextRadar ==
    \/ \E file \in ConfigFiles : \E cfg \in Configs : _load_config(file, cfg)
    \/ NextCall

SpecRadar == Init /\ [][NextRadar]_vars

----------------------------------------------------------------------------
(* Calls against a catalog whose flags the caller has set on the list *)

\* news_sources is a public list of NewsSource objects with a public
\* enabled field: the catalog as built, with any flags
InitAnyFlags ==
    /\ config \in Configs
    /\ \E flags \in [1..Len(_init_news_sources) -> BOOLEAN] :
          news_sources = [c \in 1..Len(_init_news_sources) |->
                             [_init_news_sources[c] EXCEPT !.enabled = flags[c]]]
    /\ pc = "idle"
    /\ session = NoSession
    /\ tasks = <<>>
    /\ task_state = <<>>
    /\ requests = <<>>
    /\ resp = <<>>
    /\ results = <<>>
    /\ all_news = <<>>
    /\ ret = "none"
    /\ source_count = 0
    /\ now = 0
    /\ first_run = NoRun
    /\ config_file = "none"
    /\ notifier = NoNotifier
    /\ engine = NoEngine

SpecAnyFlags == InitAnyFlags /\ [][NextCall]_vars

----------------------------------------------------------------------------
(* Two calls in a row against sources that answer the same both times *)

\* the first call returns: the caller keeps the list, time passes
Remember ==
    /\ pc = "done"
    /\ ~first_run.done
    /\ first_run' = [done |-> TRUE, sources |-> news_sources, resp |-> resp,
                     news |-> all_news]
    /\ now' = now + 1
    /\ pc' = "idle"
    /\ UNCHANGED <<notifier, engine, config_file, config, source_count, news_sources, session, tasks, task_state, requests,
                   resp, results, all_news, ret>>

\* the answers task i can get: any answer in the first call, the answer of
\* the first call in the second
FixedAnswers(i) ==
    IF first_run.done THEN {first_run.resp[i]}
    ELSE Answers(news_sources[tasks[i]].source_type)

NextTwice ==
    \/ ~first_run.done /\ \E id \in SourceIds : disable_source(id)
    \/ CreateSession
    \/ Dispatch
    \/ \E i \in 1..Len(tasks) : StartTask(i)
    \/ \E i \in 1..Len(tasks) : \E r \in FixedAnswers(i) : FinishTask(i, r)
    \/ Join
    \/ Remember

SpecTwice == Init /\ [][NextTwice]_vars

----------------------------------------------------------------------------
(* SmartNotifier.send_keyword_report *)

\* everything but the notifier
not_notifier_vars ==
    <<config, news_sources, run_vars, now, first_run, config_file, engine>>

\* the platforms _send_to_platform has a sender for
Supported == {"feishu", "wework", "dingtalk", "telegram"}

\* the keys of config['platforms'] modelled; "sms" has no sender
PlatformNames == {"feishu", "telegram", "sms"}

\* what sending to a platform comes to: the post succeeds, the sender
\* finds its webhook or token not configured, requests.post or
\* raise_for_status raises
SendOutcomes == {"ok", "unconfigured", "raises"}

PlatformEntries ==
    [name : PlatformNames, enabled : BOOLEAN, outcome : SendOutcomes]

\* config['platforms']: a dict, its keys distinct, walked in its order
PlatformDicts ==
    { ps \in UNION { [1..n -> PlatformEntries] : n \in 0..Cardinality(PlatformNames) } :
        \A a, b \in DOMAIN ps : a # b => ps[a].name # ps[b].name }

\* the try block of _send_to_platform and the sender it calls
send_try(p) ==
    IF p.name \in Supported
    THEN CASE p.outcome = "ok" -> Ret(TRUE)
           [] p.outcome = "unconfigured" -> Ret(FALSE)
           [] p.outcome = "raises" -> Raise("http")
    ELSE Ret(FALSE)

\* except Exception: return False
_send_to_platform(p) ==
    LET t == send_try(p) IN IF t.raised THEN FALSE ELSE t.value

\* send_keyword_report is called: a notifier that is not enabled returns
\* True at once
send_keyword_report ==
    /\ notifier.pc = "idle"
    /\ notifier' = IF ~notifier.enabled
                   THEN [notifier EXCEPT !.pc = "returned", !.ret = TRUE]
                   ELSE [notifier EXCEPT !.pc = "loop", !.k = 1]
    /\ UNCHANGED not_notifier_vars

\* a loop that is left at the first platform that did not succeed
send_keyword_report_loop_until_failure ==
    /\ notifier.pc = "loop"
    /\ notifier.k <= Len(notifier.platforms)
    /\ LET p == notifier.platforms[notifier.k]
       IN notifier' =
            IF ~p.enabled THEN [notifier EXCEPT !.k = @ + 1]
            ELSE IF _send_to_platform(p)
            THEN [notifier EXCEPT !.k = @ + 1, !.total_platforms = @ + 1,
                                  !.attempted = Append(@, p.name),
                                  !.success_count = @ + 1]
            ELSE [notifier EXCEPT !.k = Len(notifier.platforms) + 1,
                                  !.total_platforms = @ + 1,
                                  !.attempted = Append(@, p.name)]
    /\ UNCHANGED not_notifier_vars

\* one turn of the loop over config['platforms']
send_keyword_report_loop ==
    /\ notifier.pc = "loop"
    /\ notifier.k <= Len(notifier.platforms)
    /\ LET p == notifier.platforms[notifier.k]
       IN notifier' =
            IF ~p.enabled THEN [notifier EXCEPT !.k = @ + 1]
            ELSE [notifier EXCEPT !.k = @ + 1, !.total_platforms = @ + 1,
                                  !.attempted = Append(@, p.name),
                                  !.success_count =
                                      IF _send_to_platform(p) THEN @ + 1 ELSE @]
    /\ UNCHANGED not_notifier_vars

\* return success_count == total_platforms
send_keyword_report_return ==
    /\ notifier.pc = "loop"
    /\ notifier.k > Len(notifier.platforms)
    /\ notifier' = [notifier EXCEPT !.pc = "returned",
                        !.ret = (notifier.success_count = notifier.total_platforms)]
    /\ UNCHANGED not_notifier_vars

\* SmartNotifier(config) for any notification section
InitNotifier ==
    /\ FetcherInit
    /\ engine = NoEngine
    /\ \E en \in BOOLEAN : \E ps \in PlatformDicts :
          notifier = [NoNotifier EXCEPT !.enabled = en, !.platforms = ps]

NextNotifier ==
    \/ send_keyword_report
    \/ send_keyword_report_loop
    \/ send_keyword_report_return

SpecNotifier == InitNotifier /\ [][NextNotifier]_vars

----------------------------------------------------------------------------
(* SmartLearningEngine: construction and learn *)

\* everything but the engine
not_engine_vars ==
    <<config, news_sources, run_vars, now, first_run, config_file, notifier>>

WeightKeys == {"frequency", "trend", "sentiment"}

\* the 'weights' a caller's config may hold, in thousandths: none, all
\* three keys, one key only
UserWeights ==
    { NoWeights,
      [frequency |-> 600, trend |-> 300, sentiment |-> 100],
      [k \in {"sentiment"} |-> 300] }

\* dict.update
Update(w, u) == [k \in DOMAIN w |-> IF k \in DOMAIN u THEN u[k] ELSE w[k]]

\* SmartLearningEngine(cfg): _merge_configs takes CONFIG.copy(), a shallow
\* copy whose 'weights' is the dict of the class itself, updates that dict
\* with the caller's weights and pops 'weights' from the caller's dict;
\* the instance starts with a copy of the merged weights
SmartLearningEngine(cfg) ==
    /\ engine' = [engine EXCEPT
                    !.CONFIG = Update(engine.CONFIG, cfg),
                    !.given = cfg,
                    !.user_config = NoWeights,
                    !.built = TRUE,
                    !.fresh = TRUE,
                    !.weights = Update(engine.CONFIG, cfg)]
    /\ UNCHANGED not_engine_vars

\* the scores _evaluate_factors can give a factor, in hundredths:
\* (corr + 1) / 2 for a correlation corr in [-1, 1], 0.5 without data
PerformanceGrid == {0, 10, 50, 90}

Max(a, b) == IF a > b THEN a ELSE b

\* round(n / d, 3) in thousandths, for n / d given in units of one
Round3(n, d) == (2 * 1000 * n + d) \div (2 * d)

\* _normalize_weights for the weights performance[k] / total: each weight
\* is brought into its bounds (here in units of 1 / (1000 * total)), then
\* every weight is divided by the sum of the three and rounded
_normalize_weights(performance, total) ==
    LET normalized ==
            [k \in WeightKeys |->
                IF k = "sentiment"
                THEN Max(50 * total, Min(400 * total, 1000 * performance[k]))
                ELSE Max(100 * total, Min(700 * total, 1000 * performance[k]))]
        total_weight == normalized["frequency"] + normalized["trend"]
                            + normalized["sentiment"]
    IN [k \in WeightKeys |-> Round3(normalized[k], total_weight)]

\* _calculate_optimal_weights; None is the empty dict here
_calculate_optimal_weights(performance) ==
    LET total == performance["frequency"] + performance["trend"]
                     + performance["sentiment"]
    IN IF total <= 0 THEN NoWeights ELSE _normalize_weights(performance, total)

Abs(x) == IF x < 0 THEN -x ELSE x

\* some weight moves by 0.01 or more
_should_update_weights(new_weights) ==
    \E k \in WeightKeys : Abs(new_weights[k] - engine.weights[k]) >= 10

\* learn(keywords, news_items) with enough keywords for the weights to be
\* looked at again; performance is what _evaluate_factors makes of the
\* keyword records
learn(performance) ==
    /\ engine.built
    /\ LET new_weights == _calculate_optimal_weights(performance)
       IN engine' = IF new_weights # NoWeights /\ _should_update_weights(new_weights)
                    THEN [engine EXCEPT !.weights = new_weights, !.fresh = FALSE]
                    ELSE [engine EXCEPT !.fresh = FALSE]
    /\ UNCHANGED not_engine_vars

NextEngine ==
    \/ \E cfg \in UserWeights : SmartLearningEngine(cfg)
    \/ \E performance \in [WeightKeys -> PerformanceGrid] : learn(performance)

SpecEngine == Init /\ [][NextEngine]_vars

----------------------------------------------------------------------------
(* Properties *)

Dispatched == pc \in {"joining", "done"}
TaskIds == 1..Len(tasks)
SourceOf(i) == news_sources[tasks[i]]
Finished(i) == task_state[i] = "done"

\* the request of task i ended without a usable answer
Transient(i) == resp[i].kind \in {"timeout", "transport"}
BadStatus(i) == resp[i].kind = "http" /\ resp[i].status # 200
Malformed(i) == resp[i].kind = "http" /\ resp[i].status = 200 /\ ~resp[i].parsable
Failing(i) == Transient(i) \/ BadStatus(i) \/ Malformed(i)

\* task i received a well-formed payload that its adapter takes whole
Clean(i) ==
    /\ resp[i].kind = "http" /\ resp[i].status = 200 /\ resp[i].parsable
    /\ \A j \in 1..Len(resp[i].entries) :
          resp[i].entries[j].has_title /\ resp[i].entries[j].len > MinTitleLen
    /\ SourceOf(i).source_type = "rss" => Len(resp[i].entries) <= RssLimit
    /\ SourceOf(i).source_type = "web_scraper" =>
          SourceOf(i).selector /\ Len(resp[i].entries) <= WebLimit

\* the items of all_news that come from the payload of task i
ItemsFrom(i) == {p \in 1..Len(all_news) : all_news[p].title[1] = tasks[i]}

RECURSIVE SumPayloads(_)
\* the summed payload sizes of the clean tasks among 1..n
SumPayloads(n) ==
    IF n = 0 THEN 0
    ELSE SumPayloads(n - 1) + (IF Clean(n) THEN Len(resp[n].entries) ELSE 0)

\* C1: whatever the per-source outcomes, fetch_all_news_async ends by
\* returning a list: it never raises, and no source's error reaches the
\* orchestrator as an exception among the gathered results.
C1_NoSourceErrorEscapes ==
    pc = "done" =>
        /\ ret = "list"
        /\ \A i \in TaskIds : ~results[i].raised

\* a finished run in which one source timed out, one had a transport error
\* or a bad status, and one sent a malformed payload
C1_Witness ==
    /\ pc = "done" /\ ret = "list"
    /\ \E i \in TaskIds : resp[i].kind = "timeout"
    /\ \E i \in TaskIds : BadStatus(i) \/ resp[i].kind = "transport"
    /\ \E i \in TaskIds :
          /\ SourceOf(i).source_type = "newsnow_api"
          /\ \/ Malformed(i)
             \/ \E j \in 1..Len(resp[i].entries) : ~resp[i].entries[j].has_title

\* C2: when the run is over, a failing source has no item in the aggregate
\* and a source that delivered a well-formed payload has exactly as many
\* items in it as its payload has entries; when every source is of one of
\* these two kinds the aggregate has the summed payload sizes.
C2_PartialFailureTolerance ==
    pc = "done" =>
        /\ \A i \in TaskIds : Failing(i) => ItemsFrom(i) = {}
        /\ \A i \in TaskIds :
              Clean(i) => Cardinality(ItemsFrom(i)) = Len(resp[i].entries)
        /\ (\A i \in TaskIds : Failing(i) \/ Clean(i))
              => Len(all_news) = SumPayloads(Len(tasks))

\* two sources failed, two delivered items, and every item is there
C2_Witness ==
    /\ pc = "done"
    /\ \E i, j \in TaskIds : i # j /\ Failing(i) /\ Failing(j)
    /\ \E i, j \in TaskIds :
          /\ i < j /\ Clean(i) /\ Clean(j)
          /\ resp[i].entries # <<>> /\ resp[j].entries # <<>>
          /\ \E k \in TaskIds : i < k /\ k < j /\ Failing(k)
    /\ Len(all_news) = SumPayloads(Len(tasks))
    /\ Len(all_news) > SmallPayload

\* C3: the call is over only when every dispatched task has received its
\* answer and run to its end, also when some task failed.
C3_UnconditionalJoin ==
    pc = "done" =>
        \A i \in TaskIds :
            /\ Finished(i)
            /\ resp[i] # NoAnswer
            /\ results[i] # Pending

\* a finished run in which a source failed and a later one delivered
C3_Witness ==
    /\ pc = "done"
    /\ \E i, j \in TaskIds :
          i < j /\ Failing(i) /\ Finished(j) /\ results[j].value # <<>>

EnabledSources == {c \in 1..Len(news_sources) : news_sources[c].enabled}
DispatchableSources ==
    {c \in EnabledSources : news_sources[c].source_type \in KnownTypes}

\* C4 as stated: the number of tasks is the number of enabled sources, and
\* no task belongs to a disabled source.
C4_TasksEqualEnabled ==
    Dispatched =>
        /\ Len(tasks) = Cardinality(EnabledSources)
        /\ \A i \in TaskIds : SourceOf(i).enabled

\* C4 (amended): exactly one task per enabled source of a known type
\* (newsnow_api, rss, web_scraper), and no task for any other source.
C4_OneTaskPerDispatchable ==
    Dispatched =>
        /\ \A c \in 1..Len(news_sources) :
              Cardinality({i \in TaskIds : tasks[i] = c})
                  = (IF c \in DispatchableSources THEN 1 ELSE 0)
        /\ Len(tasks) = Cardinality(DispatchableSources)

\* a dispatched run over a catalog with a disabled source and an enabled
\* source of an unknown type
C4_Witness ==
    /\ Dispatched
    /\ Len(tasks) >= 2
    /\ \E c \in 1..Len(news_sources) : ~news_sources[c].enabled
    /\ \E c \in EnabledSources : news_sources[c].source_type \notin KnownTypes

\* C5 as stated: no source is attempted more than 3 times, and a source
\* whose request fails transiently (timeout, transport error) has been
\* attempted exactly 3 times when its result is the empty list.
C5_TransientRetriedThreeTimes ==
    pc = "done" =>
        \A i \in TaskIds :
            /\ requests[i] <= 3
            /\ Transient(i) => requests[i] = 3 /\ results[i].value = <<>>

Clamp(x, lo, hi) == IF x < lo THEN lo ELSE IF x > hi THEN hi ELSE x

\* the budget the specification resolves: the explicit value when the
\* configuration gives one, else clamp(n / 2, 3, 20) for n enabled sources
ResolvedBudget ==
    IF config.concurrent_limit # NoLimit
    THEN config.concurrent_limit
    ELSE Clamp(Cardinality(EnabledSources) \div 2, 3, 20)

\* C6 as stated: at every moment the number of requests in flight is at
\* most the resolved concurrency budget.
C6_InFlightWithinBudget == Cardinality(InFlight) <= ResolvedBudget

\* C7 as stated: without an explicit override the connection pool of the
\* run is capped at clamp(n / 2, 3, 20), a value in 3..20.
C7_BudgetIsClampedHalf ==
    (session.open /\ config.concurrent_limit = NoLimit) =>
        /\ session.limit = Clamp(Cardinality(EnabledSources) \div 2, 3, 20)
        /\ session.limit \in 3..20

\* an item of the StructuredAPI payload of task i lacks its title field
MissingField(i) ==
    /\ SourceOf(i).source_type = "newsnow_api"
    /\ resp[i].kind = "http" /\ resp[i].status = 200 /\ resp[i].parsable
    /\ \E j \in 1..Len(resp[i].entries) : ~resp[i].entries[j].has_title

C9_ApiResultCappedAt50 ==
    \A i \in TaskIds :
        (Finished(i) /\ SourceOf(i).source_type = "newsnow_api" /\ Clean(i)) =>
            Len(results[i].value) = Min(Len(resp[i].entries), 50)

\* C10 as stated: the HTMLScrape adapter keeps the candidates with more
\* than 5 characters of visible text and ranks them 1, 2, ... in order.
C10_SurvivorsRankedFromOne ==
    \A i \in TaskIds :
        (/\ Finished(i) /\ SourceOf(i).source_type = "web_scraper"
         /\ SourceOf(i).selector
         /\ resp[i].kind = "http" /\ resp[i].status = 200 /\ resp[i].parsable) =>
            LET v == results[i].value
                taken == 1..Min(Len(resp[i].entries), WebLimit)
            IN /\ Len(v) = Cardinality({j \in taken : resp[i].entries[j].len > MinTitleLen})
               /\ \A p \in 1..Len(v) : v[p].rank = p

\* task i is a finished feed task that received a parsable 200 answer
FeedDelivered(i) ==
    /\ Finished(i) /\ SourceOf(i).source_type = "rss"
    /\ resp[i].kind = "http" /\ resp[i].status = 200 /\ resp[i].parsable

\* C11: the FeedDocument adapter returns the first 30 entries of the feed
\* at most (min(k, 30) items for k entries), and the description of every
\* returned item has at most 100 characters.
C11_FeedCappedAndTruncated ==
    \A i \in TaskIds :
        FeedDelivered(i) =>
            LET v == results[i].value
            IN /\ Len(v) = Min(Len(resp[i].entries), 30)
               /\ \A p \in 1..Len(v) :
                     /\ v[p].description <= 100
                     /\ v[p].description <= resp[i].entries[p].summary

\* a feed of more than 30 entries, one with a summary of more than 100
\* characters, has been cut to 30 items and 100 characters
C11_Witness ==
    \E i \in TaskIds :
        /\ FeedDelivered(i)
        /\ Len(resp[i].entries) > 30
        /\ Len(results[i].value) = 30
        /\ \E p \in 1..30 :
              /\ resp[i].entries[p].summary > 100
              /\ results[i].value[p].description = 100

\* C12 as stated: a source that is disabled when the catalog is rebuilt is
\* still disabled in the rebuilt catalog.
C12_ReloadKeepsDisabled ==
    [][ (\E cfg \in Configs : __init__(cfg)) =>
            \A c \in 1..Len(news_sources') : \A d \in 1..Len(news_sources) :
                (news_sources[d].id = news_sources'[c].id /\ ~news_sources[d].enabled)
                    => ~news_sources'[c].enabled ]_vars

\* C13 as stated: the ids of the catalog are pairwise distinct.
C13_IdsPairwiseDistinct ==
    \A c, d \in 1..Len(news_sources) :
        c # d => news_sources[c].id # news_sources[d].id

\* a list of items without their timestamp fields
WithoutTimestamps(items) ==
    [p \in 1..Len(items) |->
        [f \in (DOMAIN items[p]) \ {"timestamp"} |-> items[p][f]]]

\* C14: a second call against the same catalog, every source answering as
\* in the first call, returns the list of the first call up to the
\* timestamp fields.
C14_SecondRunSameItems ==
    (pc = "done" /\ first_run.done) =>
        /\ first_run.sources = news_sources
        /\ first_run.resp = resp
        /\ WithoutTimestamps(all_news) = WithoutTimestamps(first_run.news)

\* the second call is over, with a failing source and with items whose
\* timestamps differ from those of the first call
C14_Witness ==
    /\ pc = "done" /\ first_run.done
    /\ all_news # <<>>
    /\ all_news # first_run.news
    /\ \E i \in TaskIds : Failing(i)

\* C15: every call of fetch_all_news_async that has started comes to its
\* return, whatever the sources answer, a source that times out included.
C15_FetchAllTerminates == (pc = "dispatching") ~> (pc = "done")

\* a call has returned although one of its requests timed out
C15_Witness ==
    /\ pc = "done" /\ ret = "list"
    /\ \E i \in TaskIds : resp[i] = Timeout /\ requests[i] = 1

\* C16: a call against a catalog without any enabled source creates no
\* task and returns the empty list, without raising.
C16_NothingEnabledNothingFetched ==
    (Dispatched /\ EnabledSources = {}) =>
        /\ tasks = <<>>
        /\ pc = "done" => (ret = "list" /\ all_news = <<>>)

\* a call against a catalog of disabled sources only has returned
C16_Witness ==
    /\ pc = "done" /\ ret = "list"
    /\ news_sources # <<>>
    /\ \A c \in 1..Len(news_sources) : ~news_sources[c].enabled

\* the sources that brought at least one item back
Delivering == {i \in TaskIds : ~results[i].raised /\ results[i].value # <<>>}

\* C17: the count the call reports when it returns is the number of
\* sources that returned at least one item.
C17_CountIsDeliveringSources ==
    pc = "done" => source_count = Cardinality(Delivering)

\* C18: no task is created for a source whose type the configuration
\* disables as a whole (no source of the catalog carries a flag of its own
\* in the configuration).
C18_DisabledTypeNotDispatched ==
    Dispatched =>
        \A i \in TaskIds : SourceOf(i).source_type \notin config.disabled_types

\* C19: after loading a configuration file that is missing or cannot be
\* parsed, the program has not crashed and its catalog is empty.
C19_BadConfigGivesEmptyCatalog ==
    config_file \in {"missing", "unparsable"} =>
        pc # "crashed" /\ news_sources = <<>>

\* C20: in the result of one source of one call the ranks start at 1 and
\* strictly increase in parse order, hence differ pairwise.
C20_RanksFromOneIncreasing ==
    \A i \in TaskIds :
        (Finished(i) /\ ~results[i].raised /\ results[i].value # <<>>) =>
            LET v == results[i].value
            IN /\ v[1].rank = 1
               /\ \A p \in 1..(Len(v) - 1) : v[p].rank < v[p + 1].rank

\* the order of the phases of a call
PhaseOrder ==
    { <<"idle", "dispatching">>, <<"dispatching", "joining">>,
      <<"joining", "done">>, <<"done", "idle">> }

\* C21: a call goes from idle to dispatching to joining to done, in this
\* order and in no other, and a call that has started reaches done.
C21_PhasesInOrder ==
    /\ [][pc' # pc => <<pc, pc'>> \in PhaseOrder]_vars
    /\ (pc = "dispatching") ~> (pc = "done")

\* a call is done after its tasks were built, sent and all finished
C21_Witness ==
    /\ pc = "done"
    /\ tasks # <<>>
    /\ \A i \in TaskIds : Finished(i) /\ requests[i] = 1
    /\ ~session.open

\* the fetch of task i met something other than a timeout or transport
\* error: a body that does not parse, or an item without its title
Unexpected(i) == Malformed(i) \/ MissingField(i)

\* C22: a fetch that meets an unexpected failure ends at once with an empty
\* result, after the one request it made.
C22_UnexpectedEndsFetch ==
    \A i \in TaskIds :
        (Finished(i) /\ Unexpected(i)) =>
            /\ results[i] = Ret(<<>>)
            /\ requests[i] = 1

\* one task has ended on a body that does not parse and another on an
\* item without title, while a third brought items back
C22_Witness ==
    \E i, j, k \in TaskIds :
        /\ Finished(i) /\ Malformed(i)
        /\ Finished(j) /\ MissingField(j)
        /\ Finished(k) /\ results[k].value # <<>>

RECURSIVE Offset(_)
\* the number of items the results before result i hold together
Offset(i) == IF i = 1 THEN 0 ELSE Offset(i - 1) + Len(results[i - 1].value)

\* C23: the list returned is the per-source result lists one after the
\* other, each whole, unbroken and in increasing rank order; its length is
\* the sum of their lengths.
C23_AggregateIsConcatenation ==
    (pc = "done" /\ ret = "list") =>
        /\ Len(all_news) = Offset(Len(results) + 1)
        /\ \A i \in TaskIds :
              LET v == results[i].value
              IN /\ SubSeq(all_news, Offset(i) + 1, Offset(i) + Len(v)) = v
                 /\ \A p \in 1..(Len(v) - 1) :
                       all_news[Offset(i) + p].rank < all_news[Offset(i) + p + 1].rank

\* a returned list made of the items of two sources, with a source
\* between them that brought nothing
C23_Witness ==
    /\ pc = "done" /\ ret = "list"
    /\ \E i, j, k \in TaskIds :
          /\ i < j /\ j < k
          /\ Len(results[i].value) > 1
          /\ results[j].value = <<>>
          /\ Len(results[k].value) > 1

\* the place of a source type in the order StructuredAPI, FeedDocument,
\* HTMLScrape
TypeRank(type) ==
    CASE type = "newsnow_api" -> 1
      [] type = "rss" -> 2
      [] type = "web_scraper" -> 3

\* C24: of two tasks of a call the one whose source type comes earlier in
\* the order StructuredAPI, FeedDocument, HTMLScrape has the strictly
\* shorter timeout (no source of the catalog has a timeout of its own).
C24_TimeoutsOrderedByType ==
    Dispatched =>
        \A i, j \in TaskIds :
            TypeRank(SourceOf(i).source_type) < TypeRank(SourceOf(j).source_type)
                => TimeoutOf(SourceOf(i)) < TimeoutOf(SourceOf(j))

\* C25: a call opens its session once, when it starts; the session stays
\* open and as created while a task of the call is unfinished, and is
\* changed only by the call closing it after its last task has finished
\* and by the call's return.
C25_OneSessionPerCall ==
    /\ [](\A i \in TaskIds : (Dispatched /\ ~Finished(i)) => session.open)
    /\ [][ session' # session =>
              \/ pc = "idle" /\ pc' = "dispatching" /\ session'.open
              \/ /\ pc = "joining" /\ pc' = "done"
                 /\ \A i \in TaskIds : Finished(i)
                 /\ session' = [session EXCEPT !.open = FALSE]
              \/ pc = "done" /\ pc' = "idle" /\ session' = NoSession ]_vars

\* the session of a call is closed, after several tasks made their
\* requests through it
C25_Witness ==
    /\ pc = "done"
    /\ ~session.open /\ session.limit = DefaultConnectorLimit
    /\ Len(tasks) > 1
    /\ \A i \in TaskIds : requests[i] = 1

\* the ids of the sources a call would create tasks for, given a catalog
IdsDispatchedFrom(srcs) ==
    LET t == BuildTasks(srcs, 1) IN {srcs[t[c]].id : c \in 1..Len(t)}

\* C26: once disable_source(x) has returned, a call creates no task for a
\* source whose id is x.
C26_DisabledIdNotDispatched ==
    [][ \A x \in SourceIds :
            disable_source(x) => x \notin IdsDispatchedFrom(news_sources') ]_vars

EnabledPlatforms == SelectSeq(notifier.platforms, LAMBDA p : p.enabled)

\* sending to platform p goes through
Succeeds(p) == p.name \in Supported /\ p.outcome = "ok"

\* C28: send_keyword_report tries every enabled platform, in order, also
\* after one that failed or raised, and returns True exactly when the
\* notifier is not enabled or every enabled platform succeeded.
C28_AllPlatformsTried ==
    notifier.pc = "returned" =>
        /\ notifier.enabled =>
              notifier.attempted =
                  [i \in 1..Len(EnabledPlatforms) |-> EnabledPlatforms[i].name]
        /\ notifier.ret <=>
              \/ ~notifier.enabled
              \/ \A i \in 1..Len(EnabledPlatforms) : Succeeds(EnabledPlatforms[i])

\* the report went to a platform that raised and then to one that took it
C28_Witness ==
    /\ notifier.pc = "returned" /\ notifier.enabled
    /\ \E a, b \in 1..Len(EnabledPlatforms) :
          /\ a < b
          /\ EnabledPlatforms[a].name \in Supported
          /\ EnabledPlatforms[a].outcome = "raises"
          /\ Succeeds(EnabledPlatforms[b])
          /\ notifier.attempted[b] = EnabledPlatforms[b].name
    /\ ~notifier.ret

\* the bounds _normalize_weights declares, in thousandths
InBounds(w) ==
    /\ 100 <= w["frequency"] /\ w["frequency"] <= 700
    /\ 100 <= w["trend"] /\ w["trend"] <= 700
    /\ 50 <= w["sentiment"] /\ w["sentiment"] <= 400

\* C29: once learn has run, the weights the engine holds are within the
\* bounds: frequency and trend in [0.1, 0.7], sentiment in [0.05, 0.4].
C29_WeightsWithinBounds ==
    (engine.built /\ ~engine.fresh) => InBounds(engine.weights)

\* C30: constructing an engine leaves the weights of the class and the
\* caller's config as they were, and an engine constructed without config
\* starts with the weights 0.4, 0.4, 0.2.
C30_ConstructionLeavesDefaults ==
    /\ engine.CONFIG = DefaultWeights
    /\ engine.built => engine.user_config = engine.given
    /\ (engine.built /\ engine.fresh /\ engine.given = NoWeights) =>
          engine.weights = DefaultWeights

====
